---- MODULE Spec2Model ----
(***************************************************************************)
(* A model of the EPUB builder of src/epub/__init__.py: the lazy chapter   *)
(* cache of Book, the manifest and spine of PackageDocument, the two       *)
(* tables of contents, and the EPub.generate pipeline over a staging tree. *)
(*                                                                         *)
(* Python's sequential semantics is modelled by operators that take a      *)
(* machine record m and return the machine after the call.  m.exc holds    *)
(* the exception in flight ("none" when there is none), and a statement    *)
(* that follows a raise leaves the machine as it is.  One action is one    *)
(* call of a public method by the client script.                           *)
(***************************************************************************)
EXTENDS Integers, Sequences, FiniteSets, TLC

(* ------------------------------ bounds -------------------------------- *)
\* The most books the client puts in EPub.books.
MaxBooks == 2
\* The most content chapters a chapter source supplies.
MaxChapters == 2
\* The most calls the client script makes.
MaxCalls == 3
\* The most entries the client puts in one property list of a MetaData.
MaxProps == 2
\* The most collections the client nests in one another.
MaxNested == 2
\* The most nodes the content of a chapter holds at the top.
MaxNodes == 2

(* ----------------------------- vocabulary ----------------------------- *)
NoExc == "none"
None == "None"
\* TitleChapter is the chapter object 0; the content chapter the source
\* supplies at position k >= 1 is the chapter object k.
TitleChapterId == 0
\* WebChapter.__init__ calls Chapter.__init__(self): until process_chapters
\* assigns it, number is the chapter object itself and no integer.
SelfNumber == -1
NoRet == -2

Last(s) == s[Len(s)]

VARIABLES
    books,      \* EPub.books: the Book objects, each a record (see NewBook)
    container,  \* EPub.container.root_files
    fs,         \* the staging tree under EPub.root_dir: a set of nodes
    epub,       \* the file <root_dir>.epub
    zip,        \* the file <root_dir>.zip make_archive leaves before the move
    run,        \* the position of EPub.generate, when it is running
    log,        \* the steps the current run of generate has started
    last,       \* the last call: method, arguments, exception, result, events
    calls,      \* the number of calls the client has made
    meta,       \* the metadata objects the client holds (see MetaData)
    dom         \* the bs4 trees: the elements a call appended, the nodes

vars == <<books, container, fs, epub, zip, run, log, last, calls, meta, dom>>

(* ------------------------------ titles -------------------------------- *)
\* Titles are sequences of characters, so that re.sub acts on them.
WordChars == {"M", "y", "B", "C", "h", "_", "0", "1", "2", "3", "4", "5"}
BookTitle == <<"M", "y", " ", "B">>
\* get_title of the content chapter at source position k.
SourceTitle(k) == <<"C", "h", ".", ToString(k)>>

\* re.sub(r"\W", "_", title)
FixedTitle(t) == [i \in 1..Len(t) |-> IF t[i] \in WordChars THEN t[i] ELSE "_"]

RECURSIVE Join(_)
Join(t) == IF t = <<>> THEN "" ELSE Head(t) \o Join(Tail(t))

\* The format specification :03 of an integer.
Pad3(n) == IF n < 10 THEN "00" \o ToString(n)
           ELSE IF n < 100 THEN "0" \o ToString(n) ELSE ToString(n)

(* ------------------------------ machine ------------------------------- *)
\* A fault the environment injects into one call: `kind` "fetch" makes the
\* construction of the chapter at source position `at` raise (the page is
\* not served); `kind` "io" makes the `at`-th filesystem operation of the
\* call raise.
NoFault == [kind |-> "none", at |-> 0]
FetchFaults == {[kind |-> "fetch", at |-> k] : k \in 2..MaxChapters}
\* `kind` "title" is a page of the content chapter `at` on which get_title
\* finds no title, and `kind` "content" one on which get_content finds no
\* content: find returns None, and the attribute read of None raises.
TitleFaults == {[kind |-> "title", at |-> k] : k \in 1..MaxChapters}
ContentFaults == {[kind |-> "content", at |-> k] : k \in 1..MaxChapters}
IoFaults(n) == {[kind |-> "io", at |-> k] : k \in 1..n}
\* The faults of a call that processes a book.
BookFaults ==
    {NoFault} \cup FetchFaults \cup TitleFaults \cup ContentFaults
        \cup IoFaults(MaxChapters + 1)

Machine(flt) ==
    [books |-> books, container |-> container, fs |-> fs, epub |-> epub,
     zip |-> zip, exc |-> NoExc, ret |-> NoRet, events |-> <<>>, nio |-> 0,
     flt |-> flt]

Raise(m, e) == [m EXCEPT !.exc = e]
Ok(m) == m.exc = NoExc
\* What a call did, in order: e names it, b is the book, c the chapter and
\* p the path it was about.
Event(m, e, b, c, p) ==
    [m EXCEPT !.events = Append(@, [e |-> e, b |-> b, c |-> c, p |-> p])]

\* Book.__init__ with a first chapter whose source supplies src chapters.
\* titles holds the values of package_document.meta_data.titles: the one
\* Title of MetaData.__init__, to which the client has assigned book.title.
NewBook(src) ==
    [titles |-> <<BookTitle>>, src |-> src,
     chapters |-> <<TitleChapterId, 1>>, cursor |-> 0,
     number |-> [c \in 0..MaxChapters |-> IF c = TitleChapterId THEN 0 ELSE SelfNumber],
     items |-> <<>>, itemrefs |-> <<>>, toc |-> None, toc_chapters |-> <<>>,
     path |-> "content.opf", base_path |-> <<>>,
     ncx |-> [made |-> FALSE, points |-> <<>>],
     nav |-> [made |-> FALSE, links |-> <<>>]]

(* ------------------------------ files --------------------------------- *)
Dir(p) == [path |-> p, kind |-> "dir", data |-> <<>>]
File(p, d) == [path |-> p, kind |-> "file", data |-> d]
Parent(p) == SubSeq(p, 1, Len(p) - 1)
IsDir(tree, p) == \E n \in tree : n.path = p /\ n.kind = "dir"
IsFile(tree, p) == \E n \in tree : n.path = p /\ n.kind = "file"
IsUnder(p, q) == Len(p) >= Len(q) /\ SubSeq(p, 1, Len(q)) = q

\* One filesystem operation of the call: it raises when the environment
\* makes this one fail.
IoStep(m) == [m EXCEPT !.nio = @ + 1]
IoFails(m) == m.flt.kind = "io" /\ m.flt.at = m.nio + 1

\* print(text, file=f): the text and the end="\n" of print.
PyPrint(text) == <<text, "\n">>

\* with open(p, "w") as f: print(text, file=f)
OpenWrite(m, p, data) ==
    IF ~Ok(m) THEN m
    ELSE IF IoFails(m) \/ ~IsDir(m.fs, Parent(p)) \/ IsDir(m.fs, p)
    THEN Raise(IoStep(m), "OSError")
    ELSE [IoStep(m) EXCEPT !.fs = {n \in @ : n.path # p} \cup {File(p, data)}]

(* ----------------------------- chapters ------------------------------- *)
\* Book.title: self.package_document.meta_data.titles[0].value
BookTitleExc(B) == IF B.titles = <<>> THEN "IndexError" ELSE NoExc
\* chapter.title: TitleChapter.get_title is book.title.
GetTitleExc(m, b, c) ==
    IF c = TitleChapterId THEN BookTitleExc(m.books[b])
    ELSE IF m.flt.kind = "title" /\ m.flt.at = c THEN "AttributeError"
    ELSE NoExc
\* chapter.content: TitleChapter.get_content is a new div.
GetContentExc(m, b, c) ==
    IF c # TitleChapterId /\ m.flt.kind = "content" /\ m.flt.at = c
    THEN "AttributeError" ELSE NoExc
ChapterTitle(B, c) == IF c = TitleChapterId THEN B.titles[1] ELSE SourceTitle(c)

\* The getter of Book.title with a default Title for an empty list.
BookTitleDefault(m, b) ==
    IF ~Ok(m) THEN m
    ELSE IF m.books[b].titles = <<>> THEN [m EXCEPT !.books[b].titles = <<BookTitle>>]
    ELSE m

\* The getter of Book.title.
BookTitleGet(m, b) ==
    IF ~Ok(m) THEN m
    ELSE IF BookTitleExc(m.books[b]) # NoExc THEN Raise(m, BookTitleExc(m.books[b]))
    ELSE m

\* chapter.get_title() of the chapter c.
GetTitle(m, b, c) ==
    IF ~Ok(m) THEN m
    ELSE IF c = TitleChapterId THEN BookTitleGet(m, b)
    ELSE IF GetTitleExc(m, b, c) # NoExc THEN Raise(m, GetTitleExc(m, b, c))
    ELSE m

\* book.package_document.meta_data.titles.clear(), by the client.
ClearTitles(m, b) == [m EXCEPT !.books[b].titles = <<>>]

\* Chapter.path: the title is read first, and the format of a number that
\* is no integer raises.
ChapterPath(B, c) ==
    <<"Text", "chapter_" \o Pad3(B.number[c]) \o "_"
              \o Join(FixedTitle(ChapterTitle(B, c))) \o ".xhtml">>
ChapterPathExc(m, b, c) ==
    IF GetTitleExc(m, b, c) # NoExc THEN GetTitleExc(m, b, c)
    ELSE IF m.books[b].number[c] = SelfNumber THEN "TypeError" ELSE NoExc

\* next(chapter): TitleChapter.__next__ is book[1]; WebChapter.__next__
\* builds the chapter of the next url, or raises StopIteration without one.
ChapterNext(m, b, c) ==
    LET B == m.books[b]
        m1 == Event(m, "next", b, c, <<>>)
    IN  IF c = TitleChapterId
        THEN IF Len(B.chapters) > 1
             THEN [m1 EXCEPT !.ret = B.chapters[2]]
             ELSE Raise(m1, "RecursionError")
        ELSE IF c >= B.src THEN Raise(m1, "StopIteration")
        ELSE IF m.flt.kind = "fetch" /\ m.flt.at = c + 1 THEN Raise(m1, "URLError")
        ELSE [m1 EXCEPT !.ret = c + 1, !.books[b].number[c + 1] = SelfNumber]

AppendChapter(m, b) == [m EXCEPT !.books[b].chapters = Append(@, m.ret)]

(* -------------------------------- Book -------------------------------- *)
\* Book.__iter__
BookIter(m, b) == [m EXCEPT !.books[b].cursor = -1]

RECURSIVE NextLoop(_, _)
NextLoop(m, b) ==
    LET B == m.books[b] IN
    IF B.cursor >= Len(B.chapters)
    THEN LET r == ChapterNext(m, b, Last(B.chapters))
         IN  IF r.exc # NoExc THEN r ELSE NextLoop(AppendChapter(r, b), b)
    ELSE m

\* Book.__next__
BookNext(m, b) ==
    LET m1 == NextLoop([m EXCEPT !.books[b].cursor = @ + 1], b)
    IN  IF m1.exc # NoExc THEN m1
        ELSE [m1 EXCEPT !.ret = m1.books[b].chapters[m1.books[b].cursor + 1]]

\* __getitem__ with a loop that fetches one chapter ahead of the index.
RECURSIVE GetItemLoopAhead(_, _, _)
GetItemLoopAhead(m, b, max_index) ==
    LET B == m.books[b] IN
    IF max_index + 1 >= Len(B.chapters) \/ max_index < 0
    THEN LET r == ChapterNext(m, b, Last(B.chapters))
         IN  IF r.exc = "StopIteration" THEN Raise(r, "IndexError")
             ELSE IF r.exc # NoExc THEN r
             ELSE GetItemLoopAhead(AppendChapter(r, b), b, max_index)
    ELSE m

\* __getitem__ without the except clause: StopIteration leaves it as it is.
RECURSIVE GetItemLoopNoExcept(_, _, _)
GetItemLoopNoExcept(m, b, max_index) ==
    LET B == m.books[b] IN
    IF max_index >= Len(B.chapters) \/ max_index < 0
    THEN LET r == ChapterNext(m, b, Last(B.chapters))
         IN  IF r.exc # NoExc THEN r
             ELSE GetItemLoopNoExcept(AppendChapter(r, b), b, max_index)
    ELSE m

\* __getitem__ with a loop that a negative index does not enter.
RECURSIVE GetItemLoopNotNegative(_, _, _)
GetItemLoopNotNegative(m, b, max_index) ==
    LET B == m.books[b] IN
    IF max_index >= Len(B.chapters)
    THEN LET r == ChapterNext(m, b, Last(B.chapters))
         IN  IF r.exc = "StopIteration" THEN Raise(r, "IndexError")
             ELSE IF r.exc # NoExc THEN r
             ELSE GetItemLoopNotNegative(AppendChapter(r, b), b, max_index)
    ELSE m

RECURSIVE GetItemLoop(_, _, _)
GetItemLoop(m, b, max_index) ==
    LET B == m.books[b] IN
    IF max_index >= Len(B.chapters) \/ max_index < 0
    THEN LET r == ChapterNext(m, b, Last(B.chapters))
         IN  IF r.exc = "StopIteration" THEN Raise(r, "IndexError")
             ELSE IF r.exc # NoExc THEN r
             ELSE GetItemLoop(AppendChapter(r, b), b, max_index)
    ELSE m

\* self._chapters[item]: a negative item counts from the end of the list.
ListIndex(chapters, item) ==
    IF item < 0 THEN chapters[Len(chapters) + item + 1] ELSE chapters[item + 1]

\* Book.__getitem__ with an integer item.
BookGetItem(m, b, item) ==
    LET m1 == GetItemLoop(m, b, item)
    IN  IF m1.exc # NoExc THEN m1
        ELSE [m1 EXCEPT !.ret = ListIndex(m1.books[b].chapters, item)]

(* ------------------------- manifest and spine ------------------------- *)
Item(path, media_type, is_nav) ==
    [id |-> Last(path), href |-> path, media_type |-> media_type, is_nav |-> is_nav]

\* Manifest.register_chapter: the new item; the caller appends it.
ManifestChapterItem(chapter_path) == Item(chapter_path, "application/xhtml+xml", FALSE)

\* append_item that puts the new itemref first.
SpineInsertItemFirst(itemrefs, item) == <<item>> \o itemrefs

\* Spine.append_item
SpineAppendItem(itemrefs, item) == Append(itemrefs, item)

\* register_chapter that puts the item in the manifest and not in the spine.
PackageRegisterChapterNoSpine(m, b, c) ==
    LET B == m.books[b] IN
    IF ~Ok(m) THEN m
    ELSE IF ChapterPathExc(m, b, c) # NoExc THEN Raise(m, ChapterPathExc(m, b, c))
    ELSE LET item == ManifestChapterItem(ChapterPath(B, c))
         IN  Event([m EXCEPT !.books[b].items = Append(@, item)],
                   "register_chapter", b, c, item.href)

\* PackageDocument.register_chapter
PackageRegisterChapter(m, b, c) ==
    LET B == m.books[b] IN
    IF ~Ok(m) THEN m
    ELSE IF ChapterPathExc(m, b, c) # NoExc THEN Raise(m, ChapterPathExc(m, b, c))
    ELSE LET item == ManifestChapterItem(ChapterPath(B, c))
         IN  Event([m EXCEPT !.books[b].items = Append(@, item),
                             !.books[b].itemrefs = SpineAppendItem(@, item)],
                   "register_chapter", b, c, item.href)

path_v2 == <<"toc.ncx">>
path_v3 == <<"toc.xhtml">>

\* register_table_of_contents that makes the nav item first and returns it.
ManifestTocItemsNavFirst ==
    <<Item(path_v3, "application/xhtml+xml", TRUE),
      Item(path_v2, "application/x-dtbncx+xml", FALSE)>>

\* Manifest.register_table_of_contents: the two items it appends.
ManifestTocItems ==
    <<Item(path_v2, "application/x-dtbncx+xml", FALSE),
      Item(path_v3, "application/xhtml+xml", TRUE)>>

\* PackageDocument.register_table_of_contents
PackageRegisterToc(m, b) ==
    IF ~Ok(m) THEN m ELSE
    Event([m EXCEPT !.books[b].items = @ \o ManifestTocItems,
                    !.books[b].toc = ManifestTocItems[1].id],
          "register_toc", b, 0, path_v2)

\* MetaData.append_to_document(self, parent=None) takes one argument;
\* PackageDocument.to_document passes it two, pack and soup.
MetaDataAppendParams == 1
ToDocumentPassesArgs == 2

\* The fields of a PackageDocument that to_document makes attributes of.
NewPackageDocument ==
    [version |-> "3.0", unique_identifier |-> "BookID", prefix |-> None,
     language |-> None, text_direction |-> None, id |-> None]

Attribute(name, value) == [name |-> name, value |-> value]
\* The attributes to_document assigns to the package tag, in order, before
\* it appends the metadata: pack["xml:lang"] is assigned self.language.
PackageAttributes(pd) ==
    <<Attribute("version", pd.version),
      Attribute("unique_identifier", pd.unique_identifier)>>
        \o (IF pd.prefix # None THEN <<Attribute("prefix", pd.prefix)>> ELSE <<>>)
        \o (IF pd.language # None THEN <<Attribute("language", pd.language)>> ELSE <<>>)
        \o (IF pd.text_direction # None
            THEN <<Attribute("xml:lang", pd.language)>> ELSE <<>>)
        \o (IF pd.id # None THEN <<Attribute("id", pd.id)>> ELSE <<>>)

\* PackageDocument.to_document
ToDocument(m, b) ==
    IF ~Ok(m) THEN m
    ELSE IF ToDocumentPassesArgs > MetaDataAppendParams THEN Raise(m, "TypeError")
    ELSE m

\* PackageDocument.write
PackageWrite(m, b) ==
    LET B == m.books[b]
        m1 == OpenWrite(ToDocument(m, b), B.base_path \o <<B.path>>, <<"package">>)
    IN  IF Ok(m1) THEN Event(m1, "write_package", b, 0, <<B.path>>) ELSE m1

(* ------------------------------ Chapter ------------------------------- *)
\* Chapter.write: create_document reads title and content, then the file
\* base_directory / path is opened and written.
ChapterWrite(m, b, c) ==
    LET B == m.books[b] IN
    IF ~Ok(m) THEN m
    ELSE IF GetTitleExc(m, b, c) # NoExc THEN Raise(m, GetTitleExc(m, b, c))
    ELSE IF GetContentExc(m, b, c) # NoExc THEN Raise(m, GetContentExc(m, b, c))
    ELSE IF ChapterPathExc(m, b, c) # NoExc THEN Raise(m, ChapterPathExc(m, b, c))
    ELSE LET m1 == OpenWrite(m, B.base_path \o ChapterPath(B, c), <<"chapter">>)
         IN  IF Ok(m1) THEN Event(m1, "write_chapter", b, c, ChapterPath(B, c)) ELSE m1

\* The body of the loop in a try block that passes: a chapter that fails
\* is left out, and the loop goes on.
ProcessChapterSkip(m, b, chapter_num, c) ==
    LET m1 == ChapterWrite(
                  PackageRegisterChapter(
                      [m EXCEPT !.books[b].number[c] = chapter_num], b, c),
                  b, c)
    IN  IF Ok(m1) THEN m1 ELSE m

\* The body of the loop of Book.process_chapters.
ProcessChapter(m, b, chapter_num, c) ==
    ChapterWrite(
        PackageRegisterChapter([m EXCEPT !.books[b].number[c] = chapter_num], b, c),
        b, c)

RECURSIVE ProcessChaptersLoop(_, _, _)
ProcessChaptersLoop(m, b, chapter_num) ==
    LET r == BookNext(m, b) IN
    IF r.exc = "StopIteration" THEN [r EXCEPT !.exc = NoExc]
    ELSE IF ~Ok(r) THEN r
    ELSE LET m1 == ProcessChapter(r, b, chapter_num, r.ret)
         IN  IF Ok(m1) THEN ProcessChaptersLoop(m1, b, chapter_num + 1) ELSE m1

\* Book.process_chapters: for chapter_num, chapter in enumerate(self)
ProcessChapters(m, b) ==
    IF ~Ok(m) THEN m ELSE ProcessChaptersLoop(BookIter(m, b), b, 0)

(* -------------------------- TableOfContents --------------------------- *)
\* A navPoint whose playOrder is the number of the chapter itself.
NavPointFromZero(B, c) ==
    [playOrder |-> B.number[c], text |-> ChapterTitle(B, c), src |-> ChapterPath(B, c)]

\* TableOfContents.register_chapter: TableOfContents.chapters is the field
\* toc_chapters of the book.
TocRegisterChapter(m, b, c) == [m EXCEPT !.books[b].toc_chapters = Append(@, c)]

\* TableOfContents.append_chapter_to_document_v2: the navPoint of a chapter.
NavPoint(B, c) ==
    [playOrder |-> B.number[c] + 1, text |-> ChapterTitle(B, c), src |-> ChapterPath(B, c)]
\* chapter.number + 1 of a number that is no integer raises; the title and
\* the path are read after it.
NavPointExc(m, b, c) ==
    IF m.books[b].number[c] = SelfNumber THEN "TypeError" ELSE ChapterPathExc(m, b, c)

\* TableOfContents.append_chapter_to_document_v3: the link of a chapter.
NavLink(B, c) == [href |-> ChapterPath(B, c), text |-> ChapterTitle(B, c)]

RECURSIVE TocLoopV2(_, _, _)
TocLoopV2(m, b, points) ==
    LET r == BookNext(m, b) IN
    IF r.exc = "StopIteration"
    THEN [r EXCEPT !.exc = NoExc, !.books[b].ncx = [made |-> TRUE, points |-> points]]
    ELSE IF ~Ok(r) THEN r
    ELSE IF NavPointExc(r, b, r.ret) # NoExc
         THEN Raise(r, NavPointExc(r, b, r.ret))
    ELSE TocLoopV2(r, b, Append(points, NavPoint(r.books[b], r.ret)))

\* TableOfContents.generate_version_2_document: for chapter in self.book
GenerateV2(m, b) ==
    IF ~Ok(m) THEN m
    ELSE IF BookTitleExc(m.books[b]) # NoExc THEN Raise(m, BookTitleExc(m.books[b]))
    ELSE TocLoopV2(BookIter(m, b), b, <<>>)

RECURSIVE TocLoopV3(_, _, _)
TocLoopV3(m, b, links) ==
    LET r == BookNext(m, b) IN
    IF r.exc = "StopIteration"
    THEN [r EXCEPT !.exc = NoExc, !.books[b].nav = [made |-> TRUE, links |-> links]]
    ELSE IF ~Ok(r) THEN r
    ELSE IF ChapterPathExc(r, b, r.ret) # NoExc
         THEN Raise(r, ChapterPathExc(r, b, r.ret))
    ELSE TocLoopV3(r, b, Append(links, NavLink(r.books[b], r.ret)))

\* TableOfContents.generate_version_3_document
GenerateV3(m, b) ==
    IF ~Ok(m) THEN m
    ELSE IF BookTitleExc(m.books[b]) # NoExc THEN Raise(m, BookTitleExc(m.books[b]))
    ELSE TocLoopV3(BookIter(m, b), b, <<>>)

\* TableOfContents.write: the NCX is generated and written, then the nav.
TocWrite(m, b) ==
    LET m1 == OpenWrite(GenerateV2(m, b), m.books[b].base_path \o path_v2, <<"ncx">>)
        m2 == IF Ok(m1) /\ Ok(m) THEN Event(m1, "write_ncx", b, 0, path_v2) ELSE m1
        m3 == OpenWrite(GenerateV3(m2, b), m.books[b].base_path \o path_v3, <<"nav">>)
    IN  IF Ok(m3) /\ Ok(m) THEN Event(m3, "write_nav", b, 0, path_v3) ELSE m3

\* Book.process
BookProcess(m, b) ==
    TocWrite(PackageWrite(PackageRegisterToc(ProcessChapters(m, b), b), b), b)

(* -------------------------------- EPub -------------------------------- *)
\* EPub.root_dir reads self.books[0].title: without a book it raises, and
\* so it does with a book whose titles are empty.
RootDirExc(m) ==
    IF Len(m.books) = 0 THEN "IndexError" ELSE BookTitleExc(m.books[1])
\* EPub.root_dir
RootDir(m) == IF RootDirExc(m) # NoExc THEN Raise(m, RootDirExc(m)) ELSE m

meta_inf_dir == <<"META-INF">>
content_dir == <<"CONTENT">>
text_dir == content_dir \o <<"Text">>
images_dir == content_dir \o <<"Images">>
styles_dir == content_dir \o <<"Styles">>
\* EPub.directories, as paths below root_dir (<<>> is root_dir itself).
directories == <<<<>>, meta_inf_dir, content_dir, text_dir, images_dir, styles_dir>>

\* directory.mkdir(parents=True, exist_ok=True)
Mkdir(m, p) ==
    IF ~Ok(m) THEN m
    ELSE IF IoFails(m) \/ IsFile(m.fs, p) THEN Raise(IoStep(m), "OSError")
    ELSE [IoStep(m) EXCEPT !.fs = @ \cup {Dir(SubSeq(p, 1, k)) : k \in 0..Len(p)}]

RECURSIVE MkdirLoop(_, _)
MkdirLoop(m, i) ==
    IF i > Len(directories) THEN m ELSE MkdirLoop(Mkdir(m, directories[i]), i + 1)

\* create_directory_structure without the removal of the tree.
RmtreeNot(m) == m

\* shutil.rmtree(self.root_dir, ignore_errors=True)
Rmtree(m) == IF ~Ok(m) THEN m ELSE [m EXCEPT !.fs = {}]

\* EPub.create_directory_structure
CreateDirectoryStructure(m) ==
    IF ~Ok(m) THEN m
    ELSE IF RootDirExc(m) # NoExc THEN Raise(m, RootDirExc(m))
    ELSE MkdirLoop(Rmtree(m), 1)

\* EPub.write_mimetype
WriteMimetype(m) ==
    IF ~Ok(m) THEN m
    ELSE IF RootDirExc(m) # NoExc THEN Raise(m, RootDirExc(m))
    ELSE OpenWrite(m, <<"mimetype">>, PyPrint("application/epub+zip"))

\* The body of the loop of EPub.process_books, for the book at position
\* book_num (from 0) of EPub.books.
ProcessBook(m, book_num) ==
    LET b == book_num + 1
        specific_path == "content_" \o ToString(book_num) \o ".opf"
    IN  BookProcess(
            [m EXCEPT !.books[b].base_path = content_dir,
                      !.books[b].path = specific_path,
                      !.container = Append(@, "CONTENT/" \o specific_path)],
            b)

RECURSIVE ProcessBooksLoop(_, _)
ProcessBooksLoop(m, book_num) ==
    IF ~Ok(m) \/ book_num >= Len(m.books) THEN m
    ELSE ProcessBooksLoop(ProcessBook(m, book_num), book_num + 1)

\* EPub.process_books
ProcessBooks(m) == ProcessBooksLoop(m, 0)

\* EPub.write_container
WriteContainer(m) ==
    IF ~Ok(m) THEN m
    ELSE IF RootDirExc(m) # NoExc THEN Raise(m, RootDirExc(m))
    ELSE OpenWrite(m, meta_inf_dir \o <<"container.xml">>, m.container)

\* The names a directory of the staging tree can hold, in the order sorted()
\* gives them (by code point).
NameOrder == <<"CONTENT", "Images", "META-INF", "Styles", "Text">>
Sorted(S) == SelectSeq(NameOrder, LAMBDA x : x \in S)

NoFile == [exists |-> FALSE, dirs |-> <<>>, files |-> {}, below |-> {},
           method |-> "", made_by |-> ""]

\* shutil.make_archive(base, "zip", root_dir): a ZipFile opened with
\* ZIP_DEFLATED, to which os.walk(root_dir) adds, directory by directory
\* from the top, the sorted sub-directories and then the files (in the
\* order the listing of the directory gives them, which nothing fixes).
\* `dirs` and `files` are the entries of the top directory, `below` the
\* paths of every deeper entry.
MakeArchive(tree) ==
    [exists |-> TRUE,
     dirs |-> Sorted({n.path[1] : n \in {x \in tree : Len(x.path) = 1 /\ x.kind = "dir"}}),
     files |-> {n.path[1] : n \in {x \in tree : Len(x.path) = 1 /\ x.kind = "file"}},
     below |-> {n.path : n \in {x \in tree : Len(x.path) > 1}},
     method |-> "ZIP_DEFLATED", made_by |-> "this"]

\* The names the first entry of an archive can have.
FirstEntries(a) == IF a.dirs # <<>> THEN {a.dirs[1]} ELSE a.files

\* EPub.compress
Compress(m) ==
    IF ~Ok(m) THEN m
    ELSE IF RootDirExc(m) # NoExc THEN Raise(m, RootDirExc(m))
    ELSE IF IoFails(m) \/ ~IsDir(m.fs, <<>>) THEN Raise(IoStep(m), "OSError")
    ELSE LET m1 == [IoStep(m) EXCEPT !.zip = MakeArchive(m.fs)]
         IN  IF IoFails(m1) THEN Raise(IoStep(m1), "OSError")
             ELSE Rmtree([IoStep(m1) EXCEPT !.epub = m1.zip, !.zip = NoFile])

\* generate with write_mimetype called before the directories exist.
GenerateStepsMimetypeFirst ==
    <<"write_mimetype", "create_directory_structure", "process_books",
      "write_container", "compress">>

\* EPub.generate: the methods it calls, in the order it calls them.
GenerateSteps ==
    <<"create_directory_structure", "write_mimetype", "process_books",
      "write_container", "compress">>

(* ------------------------------ MetaData ------------------------------ *)
\* An element of a document: attributes that are absent are None.
Element(name, property, id, refines, text) ==
    [name |-> name, property |-> property, id |-> id, refines |-> refines,
     text |-> text]
\* soup.new_tag(name="meta", property=..., refines=...) with its string.
Refinement(property, refines, text) == Element("meta", property, None, refines, text)

\* prop_names of MetaData.append_to_document.
prop_names ==
    <<"titles", "creators", "identifiers", "contributors", "coverages", "dates",
      "descriptions", "formats", "languages", "publishers", "relations",
      "rights", "sources", "subjects", "types">>
\* The lists MetaData.__init__ assigns.
ListNames == {prop_names[i] : i \in 1..Len(prop_names)} \cup {"collections"}

\* The class of the entries of each list.
ClassOf ==
    [titles |-> "Title", creators |-> "Creator", identifiers |-> "Identifier",
     contributors |-> "Contributor", coverages |-> "Coverage", dates |-> "Date",
     descriptions |-> "Description", formats |-> "Format",
     languages |-> "Language", publishers |-> "Publisher",
     relations |-> "Relation", rights |-> "Rights", sources |-> "Source",
     subjects |-> "Subject", types |-> "Type", collections |-> "Collection"]
\* _main_tag_name of each class.
MainTagName ==
    [Title |-> "dc:title", Creator |-> "dc:creator", Identifier |-> "dc:identifier",
     Contributor |-> "dc:contributor", Coverage |-> "dc:coverage",
     Date |-> "dc:date", Description |-> "dc:description", Format |-> "dc:format",
     Language |-> "dc:language", Publisher |-> "dc:publisher",
     Relation |-> "dc:relation", Rights |-> "dc:rights", Source |-> "dc:source",
     Subject |-> "dc:subject", Type |-> "dc:type", Collection |-> "meta"]
Persons == {"Creator", "Contributor"}

\* MetaDataProperty.__init__ and the __init__ of its subclasses. display_seq
\* is <<>> for None and <<i>> for the integer i; role is the role of a
\* Person and type the type of an Identifier or a Title.
NewProperty(cls, id) ==
    [cls |-> cls, id |-> id, value |-> "", file_as |-> None,
     alternative_script |-> None, display_seq |-> <<>>, meta_authority |-> None,
     role |-> None, type |-> None]
\* Collection.__init__. The collection nested in a collection is the next
\* one of the chain the client holds.
NewCollection(id) ==
    [cls |-> "Collection", id |-> id, value |-> "", file_as |-> None,
     alternative_script |-> None, display_seq |-> <<>>, meta_authority |-> None,
     type |-> None, group_position |-> <<>>, identifier |-> None,
     refines_id |-> None]

AppendMainTag(p) == <<Element(MainTagName[p.cls], None, p.id, None, p.value)>>
AppendAlternativeScript(p) ==
    IF p.alternative_script = None THEN <<>>
    ELSE <<Refinement("alternative-script", p.id, p.alternative_script)>>
\* str(self.display_seq)
AppendDisplaySeq(p) ==
    IF p.display_seq = <<>> THEN <<>>
    ELSE <<Refinement("display-seq", p.id, ToString(p.display_seq[1]))>>
AppendFileAs(p) ==
    IF p.file_as = None THEN <<>> ELSE <<Refinement("file-as", p.id, p.file_as)>>
AppendMetaAuthority(p) ==
    IF p.meta_authority = None THEN <<>>
    ELSE <<Refinement("meta-auth", p.id, p.meta_authority)>>

\* The four refinements MetaDataProperty.append_to_document appends after
\* the main tag.
AppendRefinements(p) ==
    AppendAlternativeScript(p) \o AppendDisplaySeq(p) \o AppendFileAs(p)
        \o AppendMetaAuthority(p)
\* MetaDataProperty.append_to_document
BaseAppendToDocument(p) == AppendMainTag(p) \o AppendRefinements(p)

\* Person.append_role
AppendRole(p) == IF p.role = None THEN <<>> ELSE <<Refinement("role", p.id, p.role)>>
\* Person.append_to_document
PersonAppendToDocument(p) == BaseAppendToDocument(p) \o AppendRole(p)

\* Identifier.append_type
IdentifierAppendType(p) ==
    IF p.type = None THEN <<>> ELSE <<Refinement("identifier-type", p.id, p.type)>>
\* Identifier.append_to_document
IdentifierAppendToDocument(p) == BaseAppendToDocument(p) \o IdentifierAppendType(p)

\* Title.append_to_document: the tag title with the prefix dc, then the
\* title-type; the method of the base class is not called.
TitleAppendToDocument(p) ==
    <<Element("dc:title", None, p.id, None, p.value)>>
        \o (IF p.type = None THEN <<>> ELSE <<Refinement("title-type", p.id, p.type)>>)

\* value.append_to_document(parent=parent): the method of the class of the
\* object. The result is what the call appends to parent, in order.
PropertyAppendToDocument(p) ==
    IF p.cls = "Title" THEN TitleAppendToDocument(p)
    ELSE IF p.cls \in Persons THEN PersonAppendToDocument(p)
    ELSE IF p.cls = "Identifier" THEN IdentifierAppendToDocument(p)
    ELSE BaseAppendToDocument(p)

RECURSIVE AppendEach(_, _)
AppendEach(prop_values, i) ==
    IF i > Len(prop_values) THEN <<>>
    ELSE PropertyAppendToDocument(prop_values[i]) \o AppendEach(prop_values, i + 1)

\* MetaData.append_property: display_seq of the entries is assigned, and
\* each entry is appended. The result holds the list and the elements.
AppendProperty(prop_values) ==
    LET numbered ==
            IF Len(prop_values) = 1
            THEN <<[prop_values[1] EXCEPT !.display_seq = <<>>]>>
            ELSE [i \in 1..Len(prop_values) |->
                     [prop_values[i] EXCEPT !.display_seq = <<i - 1>>]]
    IN  [values |-> numbered, out |-> AppendEach(numbered, 1)]

RECURSIVE MetaAppendLoop(_, _)
MetaAppendLoop(lists, k) ==
    IF k > Len(prop_names) THEN [lists |-> lists, out |-> <<>>]
    ELSE LET r == AppendProperty(lists[prop_names[k]])
             rest == MetaAppendLoop([lists EXCEPT ![prop_names[k]] = r.values], k + 1)
         IN  [lists |-> rest.lists, out |-> r.out \o rest.out]

\* MetaData.append_to_document(parent): the children of the metadata tag.
MetaDataAppendToDocument(lists) ==
    LET r == MetaAppendLoop(lists, 1)
    IN  [lists |-> r.lists,
         out |-> r.out \o <<Element("meta", "dcterms:modified", None, None, "modified")>>]

(* ----------------------------- Collection ----------------------------- *)
\* Collection.append_main_tag
CollectionAppendMainTag(c) ==
    <<Element("meta", "belongs-to-collection", c.id, c.refines_id, c.value)>>
\* Collection.append_type
CollectionAppendType(c) ==
    IF c.type = None THEN <<>> ELSE <<Refinement("collection-type", c.id, c.type)>>
\* Collection.append_group_position
AppendGroupPosition(c) ==
    IF c.group_position = <<>> THEN <<>>
    ELSE <<Refinement("group-position", c.id, ToString(c.group_position[1]))>>
\* Collection.append_identifier
AppendIdentifier(c) ==
    IF c.identifier = None THEN <<>>
    ELSE <<Refinement("dcterms:identifier", c.id, c.identifier)>>

\* append_collection with the assignment to refines_id left out.
LinkCollectionNot(chain, k) == chain

\* self.collection.refines_id = self.id
LinkCollection(chain, k) == [chain EXCEPT ![k + 1].refines_id = chain[k].id]

\* Collection.append_to_document of the k-th collection of the chain: the
\* method of the base class, the three refinements of a collection, then
\* append_collection, which is append_to_document of the nested collection.
RECURSIVE CollectionAppendToDocument(_, _)
CollectionAppendToDocument(chain, k) ==
    LET own == CollectionAppendMainTag(chain[k]) \o AppendRefinements(chain[k])
                   \o CollectionAppendType(chain[k])
                   \o AppendGroupPosition(chain[k]) \o AppendIdentifier(chain[k])
    IN  IF k = Len(chain) THEN [chain |-> chain, out |-> own]
        ELSE LET r == CollectionAppendToDocument(LinkCollection(chain, k), k + 1)
             IN  [chain |-> r.chain, out |-> own \o r.out]

\* MetaData.__init__, with the objects the client holds beside it: one
\* property object, a chain of collections and the PackageDocument.
NewMetaData ==
    [lists |-> [n \in ListNames |->
                   IF n = "identifiers" THEN <<NewProperty("Identifier", "i0")>>
                   ELSE IF n = "languages" THEN <<NewProperty("Language", "l0")>>
                   ELSE IF n = "titles" THEN <<NewProperty("Title", "t0")>>
                   ELSE <<>>],
     one |-> NewProperty("Title", "t0"),
     coll |-> <<NewCollection("c1")>>,
     package |-> NewPackageDocument]

(* ------------------------- Chapter.create_document -------------------- *)
\* The nodes of the bs4 trees: a node is its position in the sequence, kids
\* are its contents in order, and parent is 0 for a node that has none.
Node(data) == [data |-> data, kids |-> <<>>, parent |-> 0]

\* Tag.append(tag): the node leaves the parent it has, then it is the last
\* of the contents of its new parent.
NodeAppend(nodes, parent, id) ==
    LET old == nodes[id].parent
        cut == IF old = 0 THEN nodes
               ELSE [nodes EXCEPT ![old].kids = SelectSeq(@, LAMBDA x : x # id)]
    IN  [cut EXCEPT ![parent].kids = Append(@, id), ![id].parent = parent]

\* The content of a chapter page: the container is the node 1, and each
\* item of the shape is one of its contents, a string "s" or a tag "p" that
\* holds a string.
RECURSIVE Parse(_, _)
Parse(nodes, shape) ==
    IF shape = <<>> THEN nodes
    ELSE LET id == Len(nodes) + 1
             item == NodeAppend(Append(nodes, Node(Head(shape))), 1, id)
             whole == IF Head(shape) = "p"
                      THEN NodeAppend(Append(item, Node("s")), id, id + 1)
                      ELSE item
         IN  Parse(whole, Tail(shape))

\* copy.copy(item), the __copy__ of bs4: a new node that has no parent,
\* with copies of the contents of the item. The result holds the nodes and
\* the new node.
RECURSIVE Copy(_, _)
RECURSIVE CopyKids(_, _, _, _)
Copy(nodes, id) ==
    LET fresh == Len(nodes) + 1
    IN  [nodes |-> CopyKids(Append(nodes, Node(nodes[id].data)), id, fresh, 1),
         id |-> fresh]
CopyKids(nodes, id, fresh, i) ==
    IF i > Len(nodes[id].kids) THEN nodes
    ELSE LET r == Copy(nodes, nodes[id].kids[i])
         IN  CopyKids(NodeAppend(r.nodes, fresh, r.id), id, fresh, i + 1)

\* The item itself in the place of its copy.
CopyItemNot(nodes, id) == [nodes |-> nodes, id |-> id]

\* copy.copy(item) in the loop of create_document.
CopyItem(nodes, id) == Copy(nodes, id)

\* for item in self.content: doc.body.append(copy.copy(item)). The content
\* is the list of the contents of the container, read at each step.
RECURSIVE CreateDocumentLoop(_, _, _, _)
CreateDocumentLoop(nodes, src, body, i) ==
    IF i > Len(nodes[src].kids) THEN nodes
    ELSE LET c == CopyItem(nodes, nodes[src].kids[i])
         IN  CreateDocumentLoop(NodeAppend(c.nodes, body, c.id), src, body, i + 1)

\* Chapter.create_document: the body of the template with its h1, whose
\* string is the title, then the loop. body is the body of the document.
CreateDocument(d) ==
    LET body == Len(d.nodes) + 1
        made == d.nodes \o <<Node("body"), Node("h1"), Node(Join(SourceTitle(1)))>>
        doc == NodeAppend(NodeAppend(made, body, body + 1), body + 1, body + 2)
    IN  [d EXCEPT !.nodes = CreateDocumentLoop(doc, d.src, body, 1), !.body = body]

\* No document yet: the content is the empty div of a TitleChapter.
NoDom == [out |-> <<>>, pack |-> <<>>, nodes |-> <<Node("div")>>, src |-> 1, body |-> 0]

(* ----------------------------- the client ----------------------------- *)
\* What an earlier run can have left where this one works.
LeftoverTree ==
    {Dir(directories[i]) : i \in 1..Len(directories)}
    \cup {File(<<"mimetype">>, <<"old">>), File(text_dir \o <<"old.xhtml">>, <<"old">>)}
StaleArchive ==
    [exists |-> TRUE, dirs |-> <<"CONTENT", "META-INF">>, files |-> {"mimetype"},
     below |-> {text_dir}, method |-> "ZIP_DEFLATED", made_by |-> "earlier"]

\* No run of generate yet. epub0 is the archive as the run found it.
NoRun == [state |-> "idle", pos |-> 0, epub0 |-> NoFile]

NoCall == [op |-> "", arg |-> 0, exc |-> NoExc, ret |-> NoRet, events |-> <<>>,
           flt |-> NoFault, cache0 |-> <<>>]

\* The lists of books a client can put in EPub.books.
BookLists ==
    UNION {[1..n -> {NewBook(k) : k \in 1..MaxChapters}] : n \in 0..MaxBooks}

\* The client has built the EPub and its books; the directory of the
\* generated books holds nothing, or what an earlier run left.
Init ==
    /\ books \in BookLists
    /\ container = <<>>
    /\ fs \in {{}, LeftoverTree}
    /\ epub \in {NoFile, StaleArchive}
    /\ zip = NoFile
    /\ run = NoRun
    /\ log = <<>>
    /\ last = NoCall
    /\ calls = 0
    /\ meta = NewMetaData
    /\ dom = NoDom

Running == run.state = "running"
\* A method runs when generate has reached it, or when the client, with no
\* run of generate under way, calls it.
Callable(name) ==
    \/ Running /\ GenerateSteps[run.pos] = name
    \/ run.state \in {"idle", "done"} /\ calls < MaxCalls

\* The state after a call that left the machine m.
Commit(m, op, arg, cache0) ==
    /\ books' = m.books
    /\ container' = m.container
    /\ fs' = m.fs
    /\ epub' = m.epub
    /\ zip' = m.zip
    /\ last' = [op |-> op, arg |-> arg, exc |-> m.exc, ret |-> m.ret,
                events |-> m.events, flt |-> m.flt, cache0 |-> cache0]
    /\ UNCHANGED <<meta, dom>>

\* generate with each step in a try block that passes.
AfterStepSwallow(m) ==
    IF run.pos = Len(GenerateSteps) THEN [run EXCEPT !.state = "done"]
    ELSE [run EXCEPT !.pos = @ + 1]

\* EPub.generate runs its steps one after the other; an exception of a
\* step leaves generate at once, and nothing in generate handles it.
AfterStep(m) ==
    IF ~Ok(m) THEN [run EXCEPT !.state = "raised"]
    ELSE IF run.pos = Len(GenerateSteps) THEN [run EXCEPT !.state = "done"]
    ELSE [run EXCEPT !.pos = @ + 1]

Step(m, name) ==
    /\ Callable(name)
    /\ Commit(m, name, 0, <<>>)
    /\ IF Running
       THEN /\ run' = AfterStep(m)
            /\ log' = Append(log, [step |-> name, exc |-> m.exc])
            /\ calls' = calls
       ELSE /\ run' = [run EXCEPT !.state = "idle", !.pos = 0]
            /\ log' = log
            /\ calls' = calls + 1

\* The client calls EPub.generate.
CallGenerate ==
    /\ run.state \in {"idle", "done"}
    /\ calls < MaxCalls
    /\ run' = [state |-> "running", pos |-> 1, epub0 |-> epub]
    /\ log' = <<>>
    /\ calls' = calls + 1
    /\ last' = [NoCall EXCEPT !.op = "generate"]
    /\ UNCHANGED <<books, container, fs, epub, zip, meta, dom>>

DoCreateDirectoryStructure ==
    \E flt \in {NoFault} \cup IoFaults(Len(directories)) :
        Step(CreateDirectoryStructure(Machine(flt)), "create_directory_structure")

DoWriteMimetype ==
    \E flt \in {NoFault} \cup IoFaults(1) :
        Step(WriteMimetype(Machine(flt)), "write_mimetype")

DoProcessBooks ==
    \E flt \in BookFaults : Step(ProcessBooks(Machine(flt)), "process_books")

DoWriteContainer ==
    \E flt \in {NoFault} \cup IoFaults(1) :
        Step(WriteContainer(Machine(flt)), "write_container")

DoCompress ==
    \E flt \in {NoFault} \cup IoFaults(2) :
        Step(Compress(Machine(flt)), "compress")

Next ==
    \/ CallGenerate
    \/ DoCreateDirectoryStructure
    \/ DoWriteMimetype
    \/ DoProcessBooks
    \/ DoWriteContainer
    \/ DoCompress

Spec == Init /\ [][Next]_vars

(* ---------------------- the client of one Book ------------------------ *)
\* The client has built one Book and works in a directory that holds a
\* Text directory or none; EPub plays no part.
BookInit ==
    /\ books \in {<<NewBook(k)>> : k \in 1..MaxChapters}
    /\ container = <<>>
    /\ fs \in {{Dir(<<>>)}, {Dir(<<>>), Dir(<<"Text">>)}}
    /\ epub = NoFile
    /\ zip = NoFile
    /\ run = NoRun
    /\ log = <<>>
    /\ last = NoCall
    /\ calls = 0
    /\ meta = NewMetaData
    /\ dom = NoDom

BookCall(m, op, arg) ==
    /\ calls < MaxCalls
    /\ Commit(m, op, arg, books[1].chapters)
    /\ calls' = calls + 1
    /\ UNCHANGED <<run, log>>

CallProcess ==
    \E flt \in BookFaults : BookCall(BookProcess(Machine(flt), 1), "process", 0)

CallProcessChapters ==
    \E flt \in BookFaults :
        BookCall(ProcessChapters(Machine(flt), 1), "process_chapters", 0)

\* book.package_document.register_chapter(chapter), for a chapter the
\* client holds.
CallRegisterChapter ==
    \E i \in 1..Len(books[1].chapters) :
        BookCall(PackageRegisterChapter(Machine(NoFault), 1, books[1].chapters[i]),
                 "register_chapter", books[1].chapters[i])

\* book.table_of_contents.register_chapter(chapter), for a chapter the
\* client holds.
CallTocRegisterChapter ==
    \E i \in 1..Len(books[1].chapters) :
        BookCall(TocRegisterChapter(Machine(NoFault), 1, books[1].chapters[i]),
                 "toc_register_chapter", books[1].chapters[i])

CallRegisterToc ==
    BookCall(PackageRegisterToc(Machine(NoFault), 1), "register_table_of_contents", 0)

CallToDocument ==
    BookCall(ToDocument(Machine(NoFault), 1), "to_document", 0)

CallPackageWrite ==
    \E flt \in {NoFault} \cup IoFaults(1) :
        BookCall(PackageWrite(Machine(flt), 1), "package_write", 0)

CallGenerateV2 ==
    \E flt \in {NoFault} \cup FetchFaults \cup TitleFaults :
        BookCall(GenerateV2(Machine(flt), 1), "generate_version_2_document", 0)

CallGenerateV3 ==
    \E flt \in {NoFault} \cup FetchFaults \cup TitleFaults :
        BookCall(GenerateV3(Machine(flt), 1), "generate_version_3_document", 0)

CallTocWrite ==
    \E flt \in {NoFault} \cup FetchFaults \cup IoFaults(2) :
        BookCall(TocWrite(Machine(flt), 1), "toc_write", 0)

\* book[item]
CallGetItem ==
    \E item \in -1..(MaxChapters + 1), flt \in {NoFault} \cup FetchFaults :
        BookCall(BookGetItem(Machine(flt), 1, item), "getitem", item)

\* book.title
CallTitle ==
    BookCall(BookTitleGet(Machine(NoFault), 1), "title", 0)

\* chapter.get_title(), for a chapter the client holds.
CallGetTitle ==
    \E i \in 1..Len(books[1].chapters), flt \in {NoFault} \cup TitleFaults :
        BookCall(GetTitle(Machine(flt), 1, books[1].chapters[i]),
                 "get_title", books[1].chapters[i])

\* EPub(books=[book]).root_dir
CallRootDir ==
    BookCall(RootDir(Machine(NoFault)), "root_dir", 0)

CallClearTitles ==
    BookCall(ClearTitles(Machine(NoFault), 1), "clear_titles", 0)

\* iter(book)
CallIter ==
    BookCall(BookIter(Machine(NoFault), 1), "iter", 0)

\* next(book)
CallNext ==
    \E flt \in {NoFault} \cup FetchFaults :
        BookCall(BookNext(Machine(flt), 1), "next", 0)

BookApiNext ==
    \/ CallProcess
    \/ CallProcessChapters
    \/ CallRegisterChapter
    \/ CallTocRegisterChapter
    \/ CallRegisterToc
    \/ CallToDocument
    \/ CallPackageWrite
    \/ CallGenerateV2
    \/ CallGenerateV3
    \/ CallTocWrite
    \/ CallGetItem
    \/ CallTitle
    \/ CallGetTitle
    \/ CallRootDir
    \/ CallClearTitles
    \/ CallIter
    \/ CallNext

BookSpec == BookInit /\ [][BookApiNext]_vars

(* --------------------- the client of one Manifest --------------------- *)
\* chapter_path.split("/") of a path given as its characters: the segments
\* between the slashes, each as a string.
RECURSIVE SplitSlash(_, _)
SplitSlash(chars, part) ==
    IF chars = <<>> THEN <<part>>
    ELSE IF Head(chars) = "/" THEN <<part>> \o SplitSlash(Tail(chars), "")
    ELSE SplitSlash(Tail(chars), part \o Head(chars))

\* Manifest.register_chapter(chapter_path)
ManifestRegisterChapter(m, b, chapter_path) ==
    [m EXCEPT !.books[b].items = Append(@, ManifestChapterItem(SplitSlash(chapter_path, "")))]

\* Manifest.register_table_of_contents(toc)
ManifestRegisterToc(m, b) ==
    [m EXCEPT !.books[b].items = @ \o ManifestTocItems]

\* The chapter paths a client passes to Manifest.register_chapter.
ClientPaths ==
    {<<"T", "/", "a">>, <<"O", "/", "a">>, <<"T", "/", "b">>, <<"a">>, <<"T", "/", "O", "/", "b">>}

\* The client holds the manifest of a new book.
ManifestInit ==
    /\ books = <<NewBook(1)>>
    /\ container = <<>>
    /\ fs = {}
    /\ epub = NoFile
    /\ zip = NoFile
    /\ run = NoRun
    /\ log = <<>>
    /\ last = NoCall
    /\ calls = 0
    /\ meta = NewMetaData
    /\ dom = NoDom

\* manifest.register_chapter(chapter_path); the call is recorded with the
\* number of slashes of the path as its argument.
CallManifestRegisterChapter ==
    \E chapter_path \in ClientPaths :
        BookCall(ManifestRegisterChapter(Machine(NoFault), 1, chapter_path),
                 "manifest_register_chapter", Len(SplitSlash(chapter_path, "")) - 1)

CallManifestRegisterToc ==
    BookCall(ManifestRegisterToc(Machine(NoFault), 1),
             "manifest_register_table_of_contents", 0)

ManifestNext ==
    \/ CallManifestRegisterChapter
    \/ CallManifestRegisterToc

ManifestSpec == ManifestInit /\ [][ManifestNext]_vars

(* -------------------- the client of the documents --------------------- *)
\* What the client assigns to an attribute that is None by default.
Settings == {None, "x"}
EntryId(i) == "p" \o ToString(i)

\* The entries the client puts at position i of a list: the refinements
\* all set or all left, and display_seq as an earlier serialisation of
\* another list left it. The id is the one the client has given or the
\* string generate_random_string has drawn: nothing keeps it from being
\* the id of the first entry.
ListEntries(cls, i) ==
    {[NewProperty(cls, id) EXCEPT
         !.value = "v" \o ToString(i), !.alternative_script = a, !.file_as = a,
         !.meta_authority = a, !.display_seq = d] :
         id \in {EntryId(i), EntryId(1)}, a \in Settings, d \in {<<>>, <<7>>}}
PropertyLists(cls) ==
    UNION {{f \in [1..n -> UNION {ListEntries(cls, i) : i \in 1..n}] :
               \A i \in 1..n : f[i].value = "v" \o ToString(i)} : n \in 0..MaxProps}

\* The property objects the client builds: each attribute set or left, and
\* the id its own or None.
ClientProperties ==
    {[NewProperty(cls, id) EXCEPT
         !.value = "v", !.alternative_script = a, !.file_as = f,
         !.meta_authority = ma, !.display_seq = d,
         !.role = IF cls \in Persons THEN x ELSE None,
         !.type = IF cls \in {"Title", "Identifier"} THEN x ELSE None] :
         cls \in {ClassOf[prop_names[k]] : k \in 1..Len(prop_names)},
         id \in {"p1", None},
         a \in Settings, f \in Settings, ma \in Settings, x \in Settings,
         d \in {<<>>, <<7>>}}

\* The collections the client nests: the i-th is the collection of the one
\* before it.
ClientCollections(i) ==
    {[NewCollection("c" \o ToString(i)) EXCEPT
         !.value = "v" \o ToString(i), !.file_as = f,
         !.identifier = IF n THEN "n" \o ToString(i) ELSE None,
         !.refines_id = r] :
         f \in Settings, n \in BOOLEAN, r \in {None, "old"}}
ClientChains ==
    UNION {{f \in [1..n -> UNION {ClientCollections(i) : i \in 1..n}] :
               \A i \in 1..n : f[i].id = "c" \o ToString(i)} : n \in 1..MaxNested}

\* The package documents the client builds: each optional field set or left.
ClientPackages ==
    {[NewPackageDocument EXCEPT
         !.prefix = IF pre THEN "pre" ELSE None,
         !.language = IF lang THEN "en" ELSE None,
         !.text_direction = IF dir THEN "ltr" ELSE None,
         !.id = IF id THEN "pid" ELSE None] :
         pre \in BOOLEAN, lang \in BOOLEAN, dir \in BOOLEAN, id \in BOOLEAN}

\* The contents of the chapter pages.
Shapes == UNION {[1..n -> {"s", "p"}] : n \in 0..MaxNodes}

\* The client holds a MetaData whose lists it has filled, or a property
\* object, or a chain of collections, or a chapter with its page.
DocInit ==
    /\ books = <<>>
    /\ container = <<>>
    /\ fs = {}
    /\ epub = NoFile
    /\ zip = NoFile
    /\ run = NoRun
    /\ log = <<>>
    /\ last = NoCall
    /\ calls = 0
    /\ \/ /\ \E k \in 1..Len(prop_names) :
                \E l \in PropertyLists(ClassOf[prop_names[k]]) :
                    meta = [NewMetaData EXCEPT !.lists[prop_names[k]] = l]
          /\ dom = NoDom
       \/ /\ \E p \in ClientProperties : meta = [NewMetaData EXCEPT !.one = p]
          /\ dom = NoDom
       \/ /\ \E c \in ClientChains : meta = [NewMetaData EXCEPT !.coll = c]
          /\ dom = NoDom
       \/ /\ \E pd \in ClientPackages : meta = [NewMetaData EXCEPT !.package = pd]
          /\ dom = NoDom
       \/ /\ meta = NewMetaData
          /\ \E shape \in Shapes : dom = [NoDom EXCEPT !.nodes = Parse(@, shape)]

DocCallExc(op, arg, exc) ==
    /\ calls < MaxCalls
    /\ calls' = calls + 1
    /\ last' = [NoCall EXCEPT !.op = op, !.arg = arg, !.exc = exc]
    /\ UNCHANGED <<books, container, fs, epub, zip, run, log>>
DocCall(op, arg) == DocCallExc(op, arg, NoExc)

\* metadata.append_to_document(), the parent left to its default.
CallMetaDataAppendToDocument ==
    LET r == MetaDataAppendToDocument(meta.lists)
    IN  /\ DocCall("meta_append_to_document", 0)
        /\ meta' = [meta EXCEPT !.lists = r.lists]
        /\ dom' = [dom EXCEPT !.out = r.out]

\* metadata.append_property(prop_names[k], parent) with a new parent.
CallAppendProperty ==
    \E k \in 1..Len(prop_names) :
        LET r == AppendProperty(meta.lists[prop_names[k]])
        IN  /\ DocCall("append_property", k)
            /\ meta' = [meta EXCEPT !.lists[prop_names[k]] = r.values]
            /\ dom' = [dom EXCEPT !.out = r.out]

\* The append_to_document() of the property object.
CallPropertyAppendToDocument ==
    /\ DocCall("property_append_to_document", 0)
    /\ dom' = [dom EXCEPT !.out = PropertyAppendToDocument(meta.one)]
    /\ UNCHANGED meta

\* The append_to_document() of the first collection of the chain.
CallCollectionAppendToDocument ==
    LET r == CollectionAppendToDocument(meta.coll, 1)
    IN  /\ DocCall("collection_append_to_document", 0)
        /\ meta' = [meta EXCEPT !.coll = r.chain]
        /\ dom' = [dom EXCEPT !.out = r.out]

\* package_document.to_document(): pack holds the attributes of the package
\* tag when the call ends, by its return or by the TypeError of the call of
\* MetaData.append_to_document with two arguments.
CallPackageToDocument ==
    /\ DocCallExc("package_to_document", 0,
                  IF ToDocumentPassesArgs > MetaDataAppendParams
                  THEN "TypeError" ELSE NoExc)
    /\ dom' = [dom EXCEPT !.pack = PackageAttributes(meta.package)]
    /\ UNCHANGED meta

\* chapter.create_document()
CallCreateDocument ==
    /\ DocCall("create_document", 0)
    /\ dom' = CreateDocument(dom)
    /\ UNCHANGED meta

DocNext ==
    \/ CallMetaDataAppendToDocument
    \/ CallAppendProperty
    \/ CallPropertyAppendToDocument
    \/ CallCollectionAppendToDocument
    \/ CallPackageToDocument
    \/ CallCreateDocument

DocSpec == DocInit /\ [][DocNext]_vars

(* ------------------------- properties: EPub --------------------------- *)
IsPrefix(s, t) == Len(s) <= Len(t) /\ \A i \in 1..Len(s) : s[i] = t[i]
StepNames(l) == [i \in 1..Len(l) |-> l[i].step]
MimetypeText == "application/epub+zip"
ChapterItems(B) == SelectSeq(B.items, LAMBDA it : it.media_type = "application/xhtml+xml" /\ ~it.is_nav)

\* C6: in every run of EPub.generate the steps that have run so far are an
\* initial part of create_directory_structure, write_mimetype,
\* process_books, write_container, compress: only in that order, each at
\* most once, and the step the run is at is the one after those that ran.
C6_StepsInOrder ==
    /\ IsPrefix(StepNames(log),
                <<"create_directory_structure", "write_mimetype", "process_books",
                  "write_container", "compress">>)
    /\ Running => run.pos = Len(log) + 1
    /\ \A i \in 1..(Len(log) - 1) : log[i].exc = NoExc

\* A run in which three steps ran, one after the other.
C6_Witness ==
    /\ Len(log) = 3
    /\ last.op = "process_books"

\* Nothing outside the program made it fail: no injected failure of a
\* fetch or of a filesystem operation, and a list of books that is not empty.
NoEnvFault == last.flt = NoFault /\ books # <<>>

C8_AbortKeepsStaging ==
    \A i \in 1..Len(log) :
        (log[i].exc # NoExc /\ log[i].step # "compress") =>
            /\ i = Len(log)
            /\ run.state = "raised"
            /\ epub = run.epub0
            /\ i > 1 => \A j \in 1..Len(directories) : IsDir(fs, directories[j])
            /\ i > 2 => File(<<"mimetype">>, PyPrint(MimetypeText)) \in fs
            /\ \A k \in 1..Len(last.events) :
                   last.events[k].e = "write_chapter" =>
                       IsFile(fs, content_dir \o last.events[k].p)

\* process_books raised after it had written chapters.
C8_Witness ==
    /\ run.state = "raised"
    /\ Len(log) = 3
    /\ log[3].exc # NoExc
    /\ \E k \in 1..Len(last.events) : last.events[k].e = "write_chapter"

\* C9: the first entry of an archive EPub.compress made is the file named
\* mimetype, and it is stored without compression.
C9_MimetypeFirstStored ==
    (last.op = "compress" /\ last.exc = NoExc) =>
        /\ FirstEntries(epub) = {"mimetype"}
        /\ epub.method = "ZIP_STORED"

\* C10: the file write_mimetype has written holds exactly the text
\* application/epub+zip.
C10_MimetypeExact ==
    (last.op = "write_mimetype" /\ last.exc = NoExc) =>
        \A n \in fs : n.path = <<"mimetype">> => Join(n.data) = MimetypeText

\* C25: when get_title or get_content of the content chapter k raises in
\* process_books, called by the client or by generate, the exception leaves
\* the call and ends the run of generate; no chapter after k is fetched,
\* registered or written and k is not written, no table of contents and no
\* package document is written, and each chapter before k is in the
\* manifest and in the spine and has its file in the staging tree.
C25_ChapterFailureAborts ==
    (/\ last.op = "process_books"
     /\ last.flt.kind \in {"title", "content"}
     /\ books # <<>>
     /\ IsDir(fs, text_dir)) =>
        (last.flt.at <= books[1].src =>
            LET k == last.flt.at
                B == books[1]
                ev == last.events
            IN  /\ last.exc = "AttributeError"
                /\ run.state \in {"idle", "raised"}
                /\ \A i \in 1..Len(ev) :
                       /\ ev[i].b = 1
                       /\ ev[i].e \in {"next", "register_chapter", "write_chapter"}
                       /\ ev[i].c <= k
                       /\ ev[i].e \in {"next", "write_chapter"} => ev[i].c < k
                /\ \A c \in 0..(k - 1) :
                       /\ \E i \in 1..Len(B.items) : B.items[i].href = ChapterPath(B, c)
                       /\ \E i \in 1..Len(B.itemrefs) :
                              B.itemrefs[i].href = ChapterPath(B, c)
                       /\ IsFile(fs, B.base_path \o ChapterPath(B, c))
                /\ ~B.ncx.made /\ ~B.nav.made
                /\ ~IsFile(fs, B.base_path \o path_v2)
                /\ ~IsFile(fs, B.base_path \o path_v3)
                /\ ~IsFile(fs, B.base_path \o <<B.path>>))

\* get_content of the second content chapter has raised in a run of
\* generate: three chapters are in the spine and two of them written.
C25_Witness ==
    /\ last.op = "process_books"
    /\ last.flt = [kind |-> "content", at |-> 2]
    /\ last.exc = "AttributeError"
    /\ run.state = "raised"
    /\ Len(books[1].itemrefs) = 3

Hrefs(refs) == [i \in 1..Len(refs) |-> refs[i].href]
RegisteredPaths(evs) ==
    LET regs == SelectSeq(evs, LAMBDA ev : ev.e = "register_chapter")
    IN  [i \in 1..Len(regs) |-> regs[i].p]

\* C1: after Book.process of a new book whose source supplies N chapters,
\* with nothing outside the program failing, the manifest holds N+1 chapter
\* items, the spine N+1 itemrefs, and the NCX and the nav N+1 entries each.
C1_ProcessCounts ==
    (calls = 1 /\ last.op = "process" /\ last.flt = NoFault /\ IsDir(fs, <<"Text">>)) =>
        LET B == books[1] IN
        /\ Len(ChapterItems(B)) = B.src + 1
        /\ Len(B.itemrefs) = B.src + 1
        /\ B.ncx.made /\ Len(B.ncx.points) = B.src + 1
        /\ B.nav.made /\ Len(B.nav.links) = B.src + 1

\* C2: every call leaves the spine's itemrefs as they were, followed by the
\* chapters register_chapter was called for during the call, in the order
\* of these calls: registering C1, C2, C3 gives [C1, C2, C3], and no other
\* operation changes the order or the content of the list.
C2_SpineOrder ==
    [][Hrefs(books'[1].itemrefs)
           = Hrefs(books[1].itemrefs) \o RegisteredPaths(last'.events)]_vars

\* Three chapters are in the spine and the NCX has been generated since.
C2_Witness ==
    /\ Len(books[1].itemrefs) = 3
    /\ last.op = "generate_version_2_document"
    /\ last.exc = NoExc

\* C3: in an NCX that has been generated, the navPoint at position i (from
\* 0) is the one of the chapter at position i of the book and its playOrder
\* is i+1: 1 for the title chapter, then strictly increasing.
C3_PlayOrder ==
    LET B == books[1] IN
    B.ncx.made =>
        /\ Len(B.ncx.points) = Len(B.chapters)
        /\ \A k \in 1..Len(B.ncx.points) :
               /\ B.ncx.points[k].playOrder = k
               /\ B.titles # <<>> =>
                      B.ncx.points[k].src = ChapterPath(B, B.chapters[k])

\* An NCX of three navPoints.
C3_Witness ==
    /\ books[1].ncx.made
    /\ Len(books[1].ncx.points) = 3

\* C4: book[i] for 0 <= i < the number of cached chapters returns the cached
\* chapter at i, calls next() on no chapter and leaves the cache as it was.
C4_CachedAccess ==
    (last.op = "getitem" /\ 0 <= last.arg /\ last.arg < Len(last.cache0)) =>
        /\ last.exc = NoExc
        /\ last.ret = last.cache0[last.arg + 1]
        /\ last.events = <<>>
        /\ books[1].chapters = last.cache0

\* book[2] of a book that had fetched its third chapter before.
C4_Witness ==
    /\ last.op = "getitem"
    /\ last.arg = 2
    /\ Len(last.cache0) = 3
    /\ last.ret = 2

\* C5: book[i] for i at or beyond the cached frontier, with no fetch
\* failing, calls next() on the last cached chapter and appends the result,
\* again and again, until the cache is longer than i, and returns the
\* chapter at i; when the source ends before that it raises IndexError, and
\* the chapters fetched until then stay cached in order.
C5_FetchForward ==
    (last.op = "getitem" /\ last.arg >= Len(last.cache0) /\ last.flt = NoFault) =>
        LET ch == books[1].chapters
            n0 == Len(last.cache0)
            ev == last.events
        IN  /\ IsPrefix(last.cache0, ch)
            /\ \A k \in 1..Len(ev) :
                   /\ ev[k].e = "next"
                   /\ n0 + k - 1 <= Len(ch)
                   /\ ev[k].c = ch[n0 + k - 1]
            /\ IF last.arg <= books[1].src
               THEN /\ last.exc = NoExc
                    /\ Len(ch) = last.arg + 1
                    /\ last.ret = ch[last.arg + 1]
                    /\ Len(ev) = Len(ch) - n0
               ELSE /\ last.exc = "IndexError"
                    /\ Len(ch) = books[1].src + 1
                    /\ Len(ev) = Len(ch) - n0 + 1

\* book[3] of a book of three chapters in all: one chapter was fetched
\* before the source ended.
C5_Witness ==
    /\ last.op = "getitem"
    /\ last.exc = "IndexError"
    /\ Len(books[1].chapters) = Len(last.cache0) + 1

\* C13: the manifest never holds two items with the same id, and the spine
\* never two itemrefs of the same id: a chapter whose id an item of the
\* manifest already has is refused and not added a second time.
C13_DuplicateRefused ==
    LET B == books[1] IN
    /\ \A i, j \in 1..Len(B.items) : i # j => B.items[i].id # B.items[j].id
    /\ \A i, j \in 1..Len(B.itemrefs) : i # j => B.itemrefs[i].id # B.itemrefs[j].id

\* C18: register_table_of_contents adds two items to the end of the
\* manifest, the NCX item (toc.ncx, application/x-dtbncx+xml) and then the
\* nav item (toc.xhtml, application/xhtml+xml, nav), sets spine.toc to the
\* id of the NCX item and leaves the itemrefs of the spine as they were.
C18_RegisterToc ==
    [][last'.op = "register_table_of_contents" =>
          /\ last'.exc = NoExc
          /\ books'[1].items = books[1].items \o
                 <<[id |-> "toc.ncx", href |-> <<"toc.ncx">>,
                    media_type |-> "application/x-dtbncx+xml", is_nav |-> FALSE],
                   [id |-> "toc.xhtml", href |-> <<"toc.xhtml">>,
                    media_type |-> "application/xhtml+xml", is_nav |-> TRUE]>>
          /\ books'[1].toc = "toc.ncx"
          /\ books'[1].itemrefs = books[1].itemrefs]_vars

\* The table of contents was registered for a book with chapters in its spine.
C18_Witness ==
    /\ last.op = "register_table_of_contents"
    /\ Len(books[1].itemrefs) >= 2
    /\ Len(books[1].items) = Len(books[1].itemrefs) + 2

\* C19: every itemref of the spine references an item of the manifest, and
\* the items the spine references are the chapter items of the manifest, in
\* the order the manifest has them.
C19_SpineMatchesManifest ==
    LET B == books[1] IN
    /\ \A i \in 1..Len(B.itemrefs) : \E j \in 1..Len(B.items) : B.items[j] = B.itemrefs[i]
    /\ B.itemrefs = ChapterItems(B)

\* Three chapters and the table of contents are registered.
C19_Witness ==
    /\ Len(books[1].itemrefs) = 3
    /\ Len(books[1].items) = 5
    /\ books[1].toc # None

\* What a call did, without the probes for a next chapter.
Doings(evs) ==
    LET d == SelectSeq(evs, LAMBDA ev : ev.e # "next")
    IN  [i \in 1..Len(d) |-> d[i].e]

\* C20: Book.process of a new book of N+1 chapters, with nothing outside
\* the program failing, registers and writes each chapter, then registers
\* the table of contents and writes its two files, and then writes the
\* package document, once, as its last write.
C20_ProcessOrder ==
    (calls = 1 /\ last.op = "process" /\ last.flt = NoFault /\ IsDir(fs, <<"Text">>)) =>
        LET d == Doings(last.events)
            n == 2 * (books[1].src + 1)
        IN  /\ Len(d) = n + 4
            /\ \A i \in 1..n :
                   d[i] = IF i % 2 = 1 THEN "register_chapter" ELSE "write_chapter"
            /\ SubSeq(d, n + 1, n + 4)
                   = <<"register_toc", "write_ncx", "write_nav", "write_package">>

C12_DistinctIds ==
    LET ch == ChapterItems(books[1]) IN
    \A i, j \in 1..Len(ch) :
        /\ ch[i].id = Last(ch[i].href)
        /\ ch[i].href # ch[j].href => ch[i].id # ch[j].id

C21_RegisteredInBoth ==
    (calls = 1 /\ last.op \in {"process", "process_chapters"} /\ last.flt = NoFault
        /\ IsDir(fs, <<"Text">>)) =>
        LET B == books[1] IN
        /\ Len(B.toc_chapters) = Len(B.itemrefs)
        /\ \A i \in 1..Len(B.toc_chapters) :
               B.itemrefs[i].href = ChapterPath(B, B.toc_chapters[i])

\* The calls that read Book.title.
TitleReaders ==
    {"title", "root_dir", "generate_version_2_document",
     "generate_version_3_document", "toc_write"}

\* C24: a MetaData as its constructor leaves it holds one title, one
\* identifier and one language; and once the client has emptied the titles
\* of a book, each read of Book.title, by the client or by root_dir, by
\* get_title of the title chapter or by the generation of a table of
\* contents, raises IndexError and leaves the titles empty.
C24_EmptyTitlesFail ==
    [][/\ Len(meta.lists["titles"]) = 1
       /\ Len(meta.lists["identifiers"]) = 1
       /\ Len(meta.lists["languages"]) = 1
       /\ (/\ books[1].titles = <<>>
           /\ \/ last'.op \in TitleReaders
              \/ last'.op = "get_title" /\ last'.arg = TitleChapterId)
              => (last'.exc = "IndexError" /\ books'[1].titles = <<>>)]_vars

\* The titles were emptied, and the NCX was asked for after that.
C24_Witness ==
    /\ books[1].titles = <<>>
    /\ last.op = "generate_version_2_document"
    /\ last.exc = "IndexError"

\* C29: after Book.process of a new book, with nothing outside the program
\* failing, these four sequences are equal: the hrefs of the chapter items
\* of the manifest, the hrefs of the items of the spine, the src of the
\* navPoints of the NCX and the hrefs of the links of the nav document; and
\* each of the paths is the path of a chapter file that was written.
C29_FourSequences ==
    (calls = 1 /\ last.op = "process" /\ last.flt = NoFault /\ IsDir(fs, <<"Text">>)) =>
        LET B == books[1]
            paths == Hrefs(ChapterItems(B))
        IN  /\ Hrefs(B.itemrefs) = paths
            /\ B.ncx.made
            /\ [i \in 1..Len(B.ncx.points) |-> B.ncx.points[i].src] = paths
            /\ B.nav.made
            /\ [i \in 1..Len(B.nav.links) |-> B.nav.links[i].href] = paths
            /\ \A i \in 1..Len(paths) : IsFile(fs, B.base_path \o paths[i])

\* The calls of next() of the events evs on the chapter c.
NextsOn(evs, c) == SelectSeq(evs, LAMBDA ev : ev.e = "next" /\ ev.c = c)

\* C30: Book.process of a new book, with nothing outside the program
\* failing, goes through the book three times, for the chapters, for the
\* NCX and for the nav: each content chapter after the first is fetched
\* once, by the one call of next() on the chapter before it, the three
\* passes give the same chapters in the same order, and next() on the last
\* chapter, which tells the end, is called once in each pass.
C30_ThreePasses ==
    (calls = 1 /\ last.op = "process" /\ last.flt = NoFault /\ IsDir(fs, <<"Text">>)) =>
        LET B == books[1] IN
        /\ B.chapters = [k \in 1..(B.src + 1) |-> k - 1]
        /\ \A c \in 1..(B.src - 1) : Len(NextsOn(last.events, c)) = 1
        /\ Len(NextsOn(last.events, B.src)) = 3
        /\ RegisteredPaths(last.events) = [k \in 1..Len(B.chapters) |-> ChapterPath(B, B.chapters[k])]
        /\ B.ncx.made /\ B.nav.made
        /\ [i \in 1..Len(B.ncx.points) |-> B.ncx.points[i].src] = RegisteredPaths(last.events)
        /\ [i \in 1..Len(B.nav.links) |-> B.nav.links[i].href] = RegisteredPaths(last.events)

(* ----------------------- properties: documents ------------------------ *)
\* The display-seq elements of the elements out that refine id.
DisplaySeqs(out, id) ==
    SelectSeq(out, LAMBDA e : e.property = "display-seq" /\ e.refines = id)

\* The lists the last call serialised.
Serialised ==
    IF last.op = "meta_append_to_document" THEN 1..Len(prop_names)
    ELSE IF last.op = "append_property" THEN {last.arg}
    ELSE {}

\* C14: after a MetaData has serialised a property list whose entries
\* have ids of their own, a list of one entry has no display-seq element
\* for its entry, and a list of more than one entry has for each entry
\* exactly one display-seq element, whose text is the position of the entry
\* counted from zero; this for each of the fifteen lists, titles among
\* them.
C14_DisplaySeq ==
    \A k \in Serialised :
        LET L == meta.lists[prop_names[k]]
        IN  /\ Len(L) = 1 => DisplaySeqs(dom.out, L[1].id) = <<>>
            /\ (Len(L) > 1 /\ \A i, j \in 1..Len(L) : i # j => L[i].id # L[j].id) =>
                   \A i \in 1..Len(L) :
                       LET ds == DisplaySeqs(dom.out, L[i].id)
                       IN  Len(ds) = 1 /\ ds[1].text = ToString(i - 1)

\* The refinements of the property object p, in the order of the claim,
\* each with what tells that it is set: the four of every property, then
\* the one of the class of p.
RefinementsInOrder(p) ==
    <<[property |-> "alternative-script", set |-> p.alternative_script # None,
       text |-> p.alternative_script],
      [property |-> "display-seq", set |-> p.display_seq # <<>>,
       text |-> IF p.display_seq = <<>> THEN None ELSE ToString(p.display_seq[1])],
      [property |-> "file-as", set |-> p.file_as # None, text |-> p.file_as],
      [property |-> "meta-auth", set |-> p.meta_authority # None,
       text |-> p.meta_authority],
      [property |-> IF p.cls \in Persons THEN "role"
                    ELSE IF p.cls = "Identifier" THEN "identifier-type"
                    ELSE "title-type",
       set |-> IF p.cls \in Persons THEN p.role # None ELSE p.type # None,
       text |-> IF p.cls \in Persons THEN p.role ELSE p.type]>>

\* C16: append_to_document of a property object of any class appends the
\* main element first, then of alternative-script, display-seq, file-as,
\* meta-authority and the refinement of the class, in this order, those
\* that are set and no other; each refines the id of the object.
C16_RefinementOrder ==
    last.op = "property_append_to_document" =>
        LET p == meta.one
            due == SelectSeq(RefinementsInOrder(p), LAMBDA r : r.set)
        IN  /\ Len(dom.out) = 1 + Len(due)
            /\ dom.out[1] = Element(MainTagName[p.cls], None, p.id, None, p.value)
            /\ \A i \in 1..Len(due) :
                   dom.out[i + 1] = Refinement(due[i].property, p.id, due[i].text)

\* The positions of out where the main element of the collection c is.
MainAt(out, c) ==
    {i \in 1..Len(out) : out[i].property = "belongs-to-collection" /\ out[i].id = c.id}

\* C15: after append_to_document of a collection that holds a collection,
\* the belongs-to-collection element of the child refines the id of the
\* parent and comes after every element of the parent, and the
\* dcterms:identifier element of a collection refines the id of that
\* collection.
C15_NestedCollection ==
    last.op = "collection_append_to_document" =>
        /\ \A k \in 1..(Len(meta.coll) - 1) :
               LET parent == meta.coll[k]
                   child == meta.coll[k + 1]
               IN  /\ Cardinality(MainAt(dom.out, child)) = 1
                   /\ \A i \in MainAt(dom.out, child) :
                          /\ dom.out[i].refines = parent.id
                          /\ \A j \in 1..Len(dom.out) :
                                 (j # i /\ (dom.out[j].id = parent.id
                                            \/ dom.out[j].refines = parent.id))
                                     => j < i
        /\ \A k \in 1..Len(meta.coll) :
               LET c == meta.coll[k]
                   ids == {j \in 1..Len(dom.out) :
                              /\ dom.out[j].property = "dcterms:identifier"
                              /\ dom.out[j].text = c.identifier}
               IN  c.identifier # None =>
                       /\ Cardinality(ids) = 1
                       /\ \A j \in ids : dom.out[j].refines = c.id

\* A collection with a file-as and an identifier holds a collection with
\* an identifier, whose refines_id an earlier use left, and is serialised.
C15_Witness ==
    /\ last.op = "collection_append_to_document"
    /\ Len(meta.coll) = 2
    /\ meta.coll[1].file_as # None
    /\ meta.coll[1].identifier # None
    /\ meta.coll[2].identifier # None
    /\ \E i \in 1..Len(dom.out) : dom.out[i].id = "c2" /\ dom.out[i].refines = "c1"

\* The text of the tree below the node id: its data and that of its kids.
RECURSIVE Rendered(_, _)
Rendered(nodes, id) ==
    <<nodes[id].data, [i \in 1..Len(nodes[id].kids) |-> Rendered(nodes, nodes[id].kids[i])]>>
\* The nodes of the tree below the node id, id among them.
RECURSIVE Below(_, _)
Below(nodes, id) ==
    {id} \cup UNION {Below(nodes, nodes[id].kids[i]) : i \in 1..Len(nodes[id].kids)}

\* C17: create_document leaves every node there was as it was, the content
\* of the chapter among them; the body of the document holds, after its
\* h1, one node for each node of the content, in order and with the same
\* text, and no node below the body is a node there was before.
C17_CopiesContent ==
    [][last'.op = "create_document" =>
          LET content == dom.nodes[dom.src].kids
              kids == dom'.nodes[dom'.body].kids
          IN  /\ SubSeq(dom'.nodes, 1, Len(dom.nodes)) = dom.nodes
              /\ Len(kids) = 1 + Len(content)
              /\ \A i \in 1..Len(content) :
                     Rendered(dom'.nodes, kids[i + 1]) = Rendered(dom.nodes, content[i])
              /\ \A n \in Below(dom'.nodes, dom'.body) : n > Len(dom.nodes)]_vars

\* A document was made of a content of two nodes, one of them a tag that
\* holds a string.
C17_Witness ==
    /\ last.op = "create_document"
    /\ Len(dom.nodes[dom.src].kids) = 2
    /\ \E i \in 1..2 : dom.nodes[dom.nodes[dom.src].kids[i]].kids # <<>>
    /\ Len(dom.nodes[dom.body].kids) = 3

\* The values the attributes named name have among the attributes pack.
ValuesOf(pack, name) ==
    LET at == SelectSeq(pack, LAMBDA a : a.name = name)
    IN  [i \in 1..Len(at) |-> at[i].value]

\* C22: when PackageDocument.to_document ends, the package tag of its
\* document has the attribute xml:lang, with the value of text_direction,
\* when text_direction is set and has no xml:lang when it is not; prefix,
\* language and id are attributes, with their values, when they are set
\* and only then.
C22_PackageAttributes ==
    last.op = "package_to_document" =>
        LET pd == meta.package
            Due(v) == IF v = None THEN <<>> ELSE <<v>>
        IN  /\ ValuesOf(dom.pack, "xml:lang") = Due(pd.text_direction)
            /\ ValuesOf(dom.pack, "prefix") = Due(pd.prefix)
            /\ ValuesOf(dom.pack, "language") = Due(pd.language)
            /\ ValuesOf(dom.pack, "id") = Due(pd.id)

\* The refinements of a property: the meta elements that tell refines.
RefinementProperties ==
    {"alternative-script", "display-seq", "file-as", "meta-auth", "role",
     "identifier-type", "title-type"}

\* C23: append_to_document of a property object, with an id or with the id
\* None, appends no refinement whose refines is not the id of a main
\* element that it has appended: without an id the call is refused, or an
\* id is made.
C23_NoDanglingRefines ==
    last.op = "property_append_to_document" =>
        /\ last.exc = NoExc =>
               \A i \in 1..Len(dom.out) :
                   dom.out[i].property \in RefinementProperties =>
                       \E j \in 1..Len(dom.out) :
                           /\ dom.out[j].id # None
                           /\ dom.out[j].id = dom.out[i].refines
        /\ last.exc # NoExc => dom.out = <<>>

\* C27: in the metadata a MetaData has serialised, no two elements have
\* the same id: two properties have different ids, those the client gave
\* and those generate_random_string drew, and a refines tells one element.
C27_UniqueIds ==
    last.op = "meta_append_to_document" =>
        \A i, j \in 1..Len(dom.out) :
            (i # j /\ dom.out[i].id # None) => dom.out[i].id # dom.out[j].id

====
